---- MODULE Spec2Model ----
(***************************************************************************)
(* Model of pydocmd/preprocessor.py: the Markdown docstring preprocessor   *)
(* (Preprocessor) and the Kipoi dataloader preprocessor                    *)
(* (DataLoaderYamlPreprocessor, format_kipoi_dataloader).                  *)
(*                                                                         *)
(* A Python str is a sequence of one-character strings, so that slicing,   *)
(* splitting, joining and the regular expressions are computed character   *)
(* by character.                                                           *)
(***************************************************************************)
EXTENDS Integers, Sequences, FiniteSets, TLC

(***************************************************************************)
(* Character classes of Python's re module, on the characters the model    *)
(* uses.                                                                   *)
(***************************************************************************)

\* The backtick character (a backtick cannot be written in a string of this
\* language, so the character is named).
BT == "<backtick>"

\* \s, and the characters str.strip() removes.
IsSpace(ch) == ch \in {" ", "\t", "\n", "\r"}

UpperChars == <<"A", "B", "C", "D", "E", "F", "G", "H", "I", "J", "K", "L", "M",
                "N", "O", "P", "Q", "R", "S", "T", "U", "V", "W", "X", "Y", "Z">>

LowerChars == <<"a", "b", "c", "d", "e", "f", "g", "h", "i", "j", "k", "l", "m",
                "n", "o", "p", "q", "r", "s", "t", "u", "v", "w", "x", "y", "z">>

DigitChars == {"0", "1", "2", "3", "4", "5", "6", "7", "8", "9"}

\* [\w\d\._] of the reference pattern.
IsRefChar(ch) ==
    \/ ch \in {UpperChars[i] : i \in 1..Len(UpperChars)}
    \/ ch \in {LowerChars[i] : i \in 1..Len(LowerChars)}
    \/ ch \in DigitChars
    \/ ch \in {"_", "."}

\* str.lower() on one character.
LowerChar(ch) ==
    IF \E i \in 1..Len(UpperChars) : UpperChars[i] = ch
    THEN LowerChars[CHOOSE i \in 1..Len(UpperChars) : UpperChars[i] = ch]
    ELSE ch

\* str.lower()
Lower(s) == [i \in 1..Len(s) |-> LowerChar(s[i])]

\* str.strip()
Strip(s) ==
    LET keep == {i \in 1..Len(s) : ~IsSpace(s[i])}
    IN  IF keep = {} THEN <<>>
        ELSE LET lo == CHOOSE i \in keep : \A j \in keep : i <= j
                 hi == CHOOSE i \in keep : \A j \in keep : j <= i
             IN  SubSeq(s, lo, hi)

\* s[i:] with the model's 1-based index i.
From(s, i) == SubSeq(s, i, Len(s))

\* str.startswith(p)
StartsWith(s, p) == Len(s) >= Len(p) /\ SubSeq(s, 1, Len(p)) = p

\* The end of the longest run of \s characters of s that starts at i: the
\* first index k >= i with s[k] not in \s (Len(s) + 1 when there is none).
RECURSIVE SpaceRunEnd(_, _)
SpaceRunEnd(s, i) ==
    IF i <= Len(s) /\ IsSpace(s[i]) THEN SpaceRunEnd(s, i + 1) ELSE i

\* The same for the characters of [\w\d\._].
RECURSIVE RefRunEnd(_, _)
RefRunEnd(s, i) ==
    IF i <= Len(s) /\ IsRefChar(s[i]) THEN RefRunEnd(s, i + 1) ELSE i

(***************************************************************************)
(* Preprocessor._preprocess_refs: the symbol-reference pass.               *)
(*   re.sub('(?P<prefix>^| |\t)#(?P<ref>[\w\d\._]+)(?P<parens>\(\))?',     *)
(*          handler, content)                                              *)
(***************************************************************************)

NoMatch == [found |-> FALSE, prefix |-> <<>>, ref |-> <<>>, parens |-> <<>>, end |-> 0]

\* The match of the reference pattern that starts at index i, if any.  The
\* prefix alternatives are tried in the pattern's order: ^ (empty, and without
\* re.MULTILINE only at the start of the string), then a space or a tab.  The
\* ref group is greedy and the parens group is taken when "()" follows it.
RefMatchAt(content, i) ==
    LET n == Len(content)
        hash == IF i = 1 /\ n >= 1 /\ content[1] = "#" THEN 1
                ELSE IF i + 1 <= n /\ content[i] \in {" ", "\t"} /\ content[i + 1] = "#"
                     THEN i + 1
                     ELSE 0
        refEnd == RefRunEnd(content, hash + 1)
        hasParens == refEnd + 1 <= n /\ content[refEnd] = "(" /\ content[refEnd + 1] = ")"
    IN  IF hash = 0 \/ refEnd = hash + 1 THEN NoMatch
        ELSE [found  |-> TRUE,
              prefix |-> SubSeq(content, i, hash - 1),
              ref    |-> SubSeq(content, hash + 1, refEnd - 1),
              parens |-> IF hasParens THEN <<"(", ")">> ELSE <<>>,
              end    |-> IF hasParens THEN refEnd + 2 ELSE refEnd]

\* A handler that wraps the reference as it is, without the trailing-dot case.
handlerKeepsDot(match) ==
    match.prefix \o <<BT>> \o match.ref \o match.parens \o <<BT>>

\* The replacement for one match.
handler(match) ==
    LET has_trailing_dot == match.parens = <<>> /\ match.ref[Len(match.ref)] = "."
        ref == IF has_trailing_dot THEN SubSeq(match.ref, 1, Len(match.ref) - 1)
               ELSE match.ref
        result == <<BT>> \o ref \o match.parens \o <<BT>>
    IN  match.prefix \o (IF has_trailing_dot THEN result \o <<".">> ELSE result)

\* re.sub from index i on: left to right, non-overlapping; an unmatched
\* character is copied.
RECURSIVE RefsFrom(_, _)
RefsFrom(content, i) ==
    IF i > Len(content) THEN <<>>
    ELSE LET match == RefMatchAt(content, i)
         IN  IF match.found
             THEN handler(match) \o RefsFrom(content, match.end)
             ELSE <<content[i]>> \o RefsFrom(content, i + 1)

\* re.sub(..., count=1): only the first reference is replaced.
RECURSIVE RefsFirstOnly(_, _)
RefsFirstOnly(content, i) ==
    IF i > Len(content) THEN <<>>
    ELSE LET match == RefMatchAt(content, i)
         IN  IF match.found
             THEN handler(match) \o From(content, match.end)
             ELSE <<content[i]>> \o RefsFirstOnly(content, i + 1)

preprocess_refs_first_only(content) == RefsFirstOnly(content, 1)

_preprocess_refs(content) == RefsFrom(content, 1)

(***************************************************************************)
(* Preprocessor._preprocess_line: the header and definition-line rewrite.  *)
(***************************************************************************)

\* current_section = None.  No str equals it: a str is a sequence of
\* characters.
None == <<"<None>">>

\* The section names of lines 58, 60 and 62.
ArgumentsName == <<"a", "r", "g", "u", "m", "e", "n", "t", "s">>
ParametersName == <<"p", "a", "r", "a", "m", "e", "t", "e", "r", "s">>
AttributesName == <<"a", "t", "t", "r", "i", "b", "u", "t", "e", "s">>
MembersName == <<"m", "e", "m", "b", "e", "r", "s">>
RaisesName == <<"r", "a", "i", "s", "e", "s">>
ReturnsName == <<"r", "e", "t", "u", "r", "n", "s">>

\* The index at which '.*' stops from index k on: '.' matches every character
\* but the line break.
RECURSIVE DotRunEnd(_, _)
DotRunEnd(s, k) ==
    IF k <= Len(s) /\ s[k] /= "\n" THEN DotRunEnd(s, k + 1) ELSE k

\* '(.*)$' from index k on: '$' (no re.MULTILINE) matches at the end of the
\* string and before a line break that ends the string.
TailOk(s, k) == DotRunEnd(s, k) >= Len(s)

\* The end of the longest run of [^\\:] that starts at i.
RECURSIVE IdentRunEnd(_, _)
IdentRunEnd(s, i) ==
    IF i <= Len(s) /\ s[i] \notin {"\\", ":"} THEN IdentRunEnd(s, i + 1) ELSE i

\* The header pattern r'# (.*)$' at the start of the line (re.match).
HeaderMatches(line) == StartsWith(line, <<"#", " ">>) /\ TailOk(line, 3)

\* group(1) of the header match.
HeaderText(line) == SubSeq(line, 3, DotRunEnd(line, 3) - 1)

\* re.sub(r'# (.*)$', r'__\1__\n', line) on a line the header pattern matches
\* at its start: the one match is the leftmost one, at index 1, and what
\* follows it (a closing line break, if any) holds no further match.
HeaderSub(line) ==
    <<"_", "_">> \o HeaderText(line) \o <<"_", "_", "\n">>
        \o From(line, DotRunEnd(line, 3))

\* The three styles, as the text before \1 and the text between \1 and \3.
NoStyle == <<>>
StyleArguments == << <<"-", " ", "_", "_">>, <<"_", "_", ":">> >>
StyleAttributes == << <<"-", " ", BT>>, <<BT, ":">> >>
StyleReturns == << <<BT>>, <<BT, ":">> >>

\* Lines 58-65: the style the active section selects.
StyleOf(current_section) ==
    IF current_section \in {ArgumentsName, ParametersName} THEN StyleArguments
    ELSE IF current_section \in {AttributesName, MembersName, RaisesName}
         THEN StyleAttributes
    ELSE IF current_section \in {ReturnsName} THEN StyleReturns
    ELSE NoStyle

\* The types group '(\s*\(.+\))?' taken, its '(' at index w: '.+' is greedy, so
\* that the group ends at the last ')' which a ':' and a matching '(.*)$'
\* follow.  The index of that ':', looked for from c down (0: none).
RECURSIVE ColonAfterTypes(_, _, _)
ColonAfterTypes(s, w, c) ==
    IF c < w + 3 THEN 0
    ELSE IF /\ s[c] = ":" /\ s[c - 1] = ")"
            /\ DotRunEnd(s, w + 1) >= c - 1
            /\ TailOk(s, c + 1)
         THEN c
         ELSE ColonAfterTypes(s, w, c - 1)

\* With the ident group ending before index b, the index of the ':' of the
\* pattern (0: none).  The types group is tried first; it cannot succeed when
\* s[b] is the ':', the case of the group skipped.
ColonAfterIdent(s, b) ==
    LET n == Len(s)
        w == SpaceRunEnd(s, b)
        c == IF w <= n /\ s[w] = "(" THEN ColonAfterTypes(s, w, n) ELSE 0
    IN  IF c /= 0 THEN c
        ELSE IF b <= n /\ s[b] = ":" /\ TailOk(s, b + 1) THEN b
        ELSE 0

\* The ident group is greedy and gives characters back one by one while the
\* rest of the pattern fails: the largest end b, from b down to lo + 1, for
\* which the rest matches (0: none).
RECURSIVE IdentEnd(_, _, _)
IdentEnd(s, lo, b) ==
    IF b <= lo THEN 0
    ELSE IF ColonAfterIdent(s, b) /= 0 THEN b
    ELSE IdentEnd(s, lo, b - 1)

NoDefMatch == [found |-> FALSE, ident |-> <<>>, doc |-> <<>>, end |-> 0]

\* The match of r'\s*([^\\:]+)(\s*\(.+\))?:(.*)$' that starts at index i, if
\* any.  '\s*' is greedy too and keeps every space it can while leaving the
\* ident group one character.
DefMatchAt(s, i) ==
    LET b == IdentEnd(s, i, IdentRunEnd(s, i))
    IN  IF b = 0 THEN NoDefMatch
        ELSE LET ws == SpaceRunEnd(s, i)
                 a == IF ws < b THEN ws ELSE b - 1
                 c == ColonAfterIdent(s, b)
             IN  [found |-> TRUE,
                  ident |-> SubSeq(s, a, b - 1),
                  doc   |-> SubSeq(s, c + 1, DotRunEnd(s, c + 1) - 1),
                  end   |-> DotRunEnd(s, c + 1)]

\* re.sub(pattern, style, line) from index i on.
RECURSIVE DefSubFrom(_, _, _)
DefSubFrom(style, s, i) ==
    IF i > Len(s) THEN <<>>
    ELSE LET match == DefMatchAt(s, i)
         IN  IF match.found
             THEN style[1] \o match.ident \o style[2] \o match.doc
                      \o DefSubFrom(style, s, match.end)
             ELSE <<s[i]>> \o DefSubFrom(style, s, i + 1)

\* Lines 66-68.
DefSub(style, line) ==
    IF style = NoStyle THEN line ELSE DefSubFrom(style, line, 1)

\* _preprocess_line with the first header kept as the active section: a later
\* header is rewritten but does not replace it.
preprocess_line_first_header_wins(line, current_section) ==
    LET isHeader == HeaderMatches(line)
        kept == IF isHeader /\ current_section = None
                THEN Lower(Strip(HeaderText(line)))
                ELSE current_section
        line1 == IF isHeader THEN HeaderSub(line) ELSE line
    IN  [line |-> DefSub(StyleOf(kept), line1), current_section |-> kept]

\* _preprocess_line with the style chosen from the section that was active
\* before the line (the header of the line itself taken into account too late).
preprocess_line_stale_style(line, current_section) ==
    IF HeaderMatches(line)
    THEN [line |-> DefSub(StyleOf(current_section), HeaderSub(line)),
          current_section |-> Lower(Strip(HeaderText(line)))]
    ELSE [line |-> DefSub(StyleOf(current_section), line),
          current_section |-> current_section]

\* Lines 51-70: returns (line, current_section).
_preprocess_line(line, current_section) ==
    LET isHeader == HeaderMatches(line)
        section == IF isHeader THEN Lower(Strip(HeaderText(line)))
                   ELSE current_section
        line1 == IF isHeader THEN HeaderSub(line) ELSE line
    IN  [line |-> DefSub(StyleOf(section), line1), current_section |-> section]

(***************************************************************************)
(* State.                                                                  *)
(***************************************************************************)

VARIABLES
    content,            \* section.content of the Section each call was given
    given,              \* that content as it was when the call was made
    pc,                 \* where each call is
    lines,              \* local 'lines' of Preprocessor.preprocess_section
    codeblock_opened,   \* local 'codeblock_opened'
    current_section,    \* local 'current_section'
    split_lines,        \* the list the for loop of line 43 goes through
    next_line,          \* the index in it of the line the loop visits next
    code,               \* local 'code' of format_kipoi_dataloader
    descr_str,          \* local 'descr_str'
    descr,              \* local 'descr'
    err,                \* the exception a call raised to its caller
    arg,                \* the argument of a function applied on its own
    ret,                \* what it returned
    applied             \* how many times it was applied

callVars == <<content, given, pc, lines, codeblock_opened, current_section,
              split_lines, next_line, code, descr_str, descr, err>>

fnVars == <<arg, ret, applied>>

vars == <<content, given, pc, lines, codeblock_opened, current_section,
          split_lines, next_line, code, descr_str, descr, err, arg, ret, applied>>

\* No call is made: the state of the call variables where a function is
\* applied on its own.
NoCalls ==
    /\ content = <<>> /\ given = <<>> /\ pc = <<>> /\ lines = <<>>
    /\ codeblock_opened = <<>> /\ current_section = <<>>
    /\ split_lines = <<>> /\ next_line = <<>>
    /\ code = <<>> /\ descr_str = <<>> /\ descr = <<>> /\ err = <<>>

\* No function is applied on its own.
NoFn == arg = <<>> /\ ret = <<>> /\ applied = 0

\* Every concatenation of at most k of the given pieces.
RECURSIVE Concats(_, _)
Concats(pieces, k) ==
    IF k = 0 THEN {<<>>}
    ELSE LET shorter == Concats(pieces, k - 1)
         IN  shorter \cup {p \o t : p \in shorter, t \in pieces}

(***************************************************************************)
(* The symbol-reference pass applied on its own, twice in a row.           *)
(***************************************************************************)

MaxRefLen == 5

RefAlphabet == { <<"#">>, <<" ">>, <<"\t">>, <<"a">>, <<".">>, <<"(">>, <<")">> }

RefsInit ==
    /\ arg \in Concats(RefAlphabet, MaxRefLen)
    /\ ret = arg
    /\ applied = 0
    /\ NoCalls

ApplyRefs ==
    /\ applied < 2
    /\ ret' = _preprocess_refs(ret)
    /\ applied' = applied + 1
    /\ UNCHANGED <<arg, callVars>>

RefsNext == ApplyRefs

SpecRefs == RefsInit /\ [][RefsNext]_vars

(***************************************************************************)
(* _preprocess_line applied on its own to one line.                        *)
(***************************************************************************)

MaxPieces == 4

LinePieces == { <<"#", " ">>, <<"#">>, <<" ">>, <<"x">>, <<":">>,
                <<"(", "i", ")">>, <<"\\">>, <<"R", "e", "t", "u", "r", "n", "s">> }

\* The value of current_section at the call: None, each recognised name, and
\* an unrecognised one.
SectionsBefore == { None, ArgumentsName, ParametersName, AttributesName,
                    MembersName, RaisesName, ReturnsName, <<"n", "o", "t", "e", "s">> }

LineInit ==
    /\ arg \in [line : Concats(LinePieces, MaxPieces), current_section : SectionsBefore]
    /\ ret = arg
    /\ applied = 0
    /\ NoCalls

ApplyLine ==
    /\ applied = 0
    /\ ret' = _preprocess_line(arg.line, arg.current_section)
    /\ applied' = 1
    /\ UNCHANGED <<arg, callVars>>

LineNext == ApplyLine

SpecLine == LineInit /\ [][LineNext]_vars

(***************************************************************************)
(* str.split, str.join and the 'in' test on strings.                       *)
(***************************************************************************)

\* sep occurs in s at index i.
OccursAt(s, sep, i) ==
    i + Len(sep) - 1 <= Len(s) /\ SubSeq(s, i, i + Len(sep) - 1) = sep

\* sep in s
Contains(s, sep) == \E i \in 1..Len(s) : OccursAt(s, sep, i)

\* s.split(sep) from index i on, cur being the part collected so far: the
\* occurrences of sep are taken left to right and do not overlap.
RECURSIVE SplitFrom(_, _, _, _)
SplitFrom(s, sep, i, cur) ==
    IF i > Len(s) THEN <<cur>>
    ELSE IF OccursAt(s, sep, i)
         THEN <<cur>> \o SplitFrom(s, sep, i + Len(sep), <<>>)
         ELSE SplitFrom(s, sep, i + 1, Append(cur, s[i]))

\* s.split(sep)
Split(s, sep) == SplitFrom(s, sep, 1, <<>>)

\* sep.join(parts)
RECURSIVE Join(_, _)
Join(sep, parts) ==
    IF parts = <<>> THEN <<>>
    ELSE IF Len(parts) = 1 THEN parts[1]
    ELSE parts[1] \o sep \o Join(sep, Tail(parts))

FenceMark == <<BT, BT, BT>>

(***************************************************************************)
(* Preprocessor.preprocess_section, line by line.                          *)
(***************************************************************************)

\* The loop body with the fence flag toggled after the line is handled.
LoopBodyTogglesAfter(line, opened, section) ==
    LET r == IF ~opened THEN _preprocess_line(line, section)
             ELSE [line |-> line, current_section |-> section]
    IN  [line |-> r.line,
         codeblock_opened |-> IF StartsWith(line, FenceMark) THEN ~opened ELSE opened,
         current_section |-> r.current_section]

\* The loop body with the header context followed inside a code block too,
\* only the rewritten line being dropped there.
LoopBodyTracksHeadersInBlock(line, opened, section) ==
    LET flag == IF StartsWith(line, FenceMark) THEN ~opened ELSE opened
        r == _preprocess_line(line, section)
    IN  [line |-> IF flag THEN line ELSE r.line,
         codeblock_opened |-> flag,
         current_section |-> r.current_section]

\* Lines 44-48: one pass of the loop body on 'line', from the values the two
\* locals have; the line appended and the values they have after it.
LoopBody(line, opened, section) ==
    LET flag == IF StartsWith(line, FenceMark) THEN ~opened ELSE opened
        r == IF ~flag THEN _preprocess_line(line, section)
             ELSE [line |-> line, current_section |-> section]
    IN  [line |-> r.line,
         codeblock_opened |-> flag,
         current_section |-> r.current_section]

Calls == DOMAIN pc

\* Lines 40-43: the locals are set and the content is split into lines.
Begin(c) ==
    /\ pc[c] = "begin"
    /\ lines' = [lines EXCEPT ![c] = <<>>]
    /\ codeblock_opened' = [codeblock_opened EXCEPT ![c] = FALSE]
    /\ current_section' = [current_section EXCEPT ![c] = None]
    /\ split_lines' = [split_lines EXCEPT ![c] = Split(content[c], <<"\n">>)]
    /\ next_line' = [next_line EXCEPT ![c] = 1]
    /\ pc' = [pc EXCEPT ![c] = "loop"]
    /\ UNCHANGED <<content, given, code, descr_str, descr, err, fnVars>>

\* One pass of the loop with the fence flag and the header context kept in one
\* place for every call (on the instance, not in locals).
LoopStepSharedLocals(c) ==
    /\ pc[c] = "loop"
    /\ next_line[c] <= Len(split_lines[c])
    /\ LET shared == CHOOSE d \in Calls : \A e \in Calls : d <= e
           r == LoopBody(split_lines[c][next_line[c]],
                         codeblock_opened[shared], current_section[shared])
       IN  /\ lines' = [lines EXCEPT ![c] = Append(lines[c], r.line)]
           /\ codeblock_opened' = [codeblock_opened EXCEPT ![shared] = r.codeblock_opened]
           /\ current_section' = [current_section EXCEPT ![shared] = r.current_section]
    /\ next_line' = [next_line EXCEPT ![c] = next_line[c] + 1]
    /\ UNCHANGED <<content, given, pc, split_lines, code, descr_str, descr, err, fnVars>>

\* Lines 43-48: one pass of the loop.
LoopStep(c) ==
    /\ pc[c] = "loop"
    /\ next_line[c] <= Len(split_lines[c])
    /\ LET r == LoopBody(split_lines[c][next_line[c]],
                         codeblock_opened[c], current_section[c])
       IN  /\ lines' = [lines EXCEPT ![c] = Append(lines[c], r.line)]
           /\ codeblock_opened' = [codeblock_opened EXCEPT ![c] = r.codeblock_opened]
           /\ current_section' = [current_section EXCEPT ![c] = r.current_section]
    /\ next_line' = [next_line EXCEPT ![c] = next_line[c] + 1]
    /\ UNCHANGED <<content, given, pc, split_lines, code, descr_str, descr, err, fnVars>>

\* Line 49: the loop is over; the lines are joined, the references rewritten
\* and the result stored in the section.
Finish(c) ==
    /\ pc[c] = "loop"
    /\ next_line[c] > Len(split_lines[c])
    /\ content' = [content EXCEPT ![c] = _preprocess_refs(Join(<<"\n">>, lines[c]))]
    /\ pc' = [pc EXCEPT ![c] = "done"]
    /\ UNCHANGED <<given, lines, codeblock_opened, current_section,
                   split_lines, next_line, code, descr_str, descr, err, fnVars>>

(***************************************************************************)
(* format_kipoi_dataloader and DataLoaderYamlPreprocessor.                 *)
(***************************************************************************)

split_str == FenceMark \o <<"\n">>

\* Line 167: the three substrings that select format_kipoi_dataloader.
Sniff(text) ==
    /\ Contains(text, <<"o", "u", "t", "p", "u", "t", "_", "s", "c", "h", "e", "m", "a", ":">>)
    /\ Contains(text, <<"a", "r", "g", "s", ":">>)
    /\ Contains(text, <<"d", "o", "c", ":">>)

\* Line 167: format_kipoi_dataloader is entered, or the method of the base
\* class is (line 171).
Dispatch(c) ==
    /\ pc[c] = "entry"
    /\ pc' = [pc EXCEPT ![c] = IF Sniff(content[c]) THEN "split" ELSE "begin"]
    /\ UNCHANGED <<content, given, lines, codeblock_opened, current_section,
                   split_lines, next_line, code, descr_str, descr, err, fnVars>>

\* The split with the code stored in the section as soon as it is known.
RenderSplitStoresCode(c) ==
    /\ pc[c] = "split"
    /\ LET parts == Split(content[c], split_str)
       IN  /\ content' = [content EXCEPT ![c] = parts[1] \o split_str]
           /\ IF Len(parts) = 2
              THEN /\ code' = [code EXCEPT ![c] = parts[1] \o split_str]
                   /\ descr_str' = [descr_str EXCEPT ![c] = parts[2]]
                   /\ pc' = [pc EXCEPT ![c] = "parse"]
                   /\ UNCHANGED err
              ELSE /\ err' = [err EXCEPT ![c] = "ValueError"]
                   /\ pc' = [pc EXCEPT ![c] = "raised"]
                   /\ UNCHANGED <<code, descr_str>>
    /\ UNCHANGED <<given, lines, codeblock_opened, current_section,
                   split_lines, next_line, descr, fnVars>>

\* Lines 137-139: the content is split at every split_str and the parts are
\* unpacked into two names, which raises ValueError unless there are two.
RenderSplit(c) ==
    /\ pc[c] = "split"
    /\ LET parts == Split(content[c], split_str)
       IN  IF Len(parts) = 2
           THEN /\ code' = [code EXCEPT ![c] = parts[1] \o split_str]
                /\ descr_str' = [descr_str EXCEPT ![c] = parts[2]]
                /\ pc' = [pc EXCEPT ![c] = "parse"]
                /\ UNCHANGED err
           ELSE /\ err' = [err EXCEPT ![c] = "ValueError"]
                /\ pc' = [pc EXCEPT ![c] = "raised"]
                /\ UNCHANGED <<code, descr_str>>
    /\ UNCHANGED <<content, given, lines, codeblock_opened, current_section,
                   split_lines, next_line, descr, fnVars>>

\* What the parser of the kipoi and related packages (which are not part of
\* this repository) hands back for a description: the summary text and the
\* Markdown that ul_dict and ul_dict_nested make of its args and output_schema.
Descriptions ==
    { [doc |-> <<"D">>, args |-> <<"-", " ", "a">>, schema |-> <<"-", " ", "s">>],
      [doc |-> <<>>, args |-> <<>>, schema |-> <<"-", " ", "s">>] }

\* The errors that parser raises: a YAML error, a missing required key.
ParseErrors == {"YAMLError", "MissingKey"}

\* Line 144: "type: dummy\ndefined_as: dummy".
SyntheticKeys ==
    <<"t", "y", "p", "e", ":", " ", "d", "u", "m", "m", "y", "\n">>
        \o <<"d", "e", "f", "i", "n", "e", "d", "_", "a", "s", ":", " ">>
        \o <<"d", "u", "m", "m", "y">>

\* Lines 142-145: the two synthetic keys are appended and the description is
\* parsed; the parser returns a description or raises.
RenderParse(c) ==
    /\ pc[c] = "parse"
    /\ descr_str' = [descr_str EXCEPT ![c] = descr_str[c] \o SyntheticKeys]
    /\ \/ \E d \in Descriptions :
            /\ descr' = [descr EXCEPT ![c] = d]
            /\ pc' = [pc EXCEPT ![c] = "format"]
            /\ UNCHANGED err
       \/ \E e \in ParseErrors :
            /\ err' = [err EXCEPT ![c] = e]
            /\ pc' = [pc EXCEPT ![c] = "raised"]
            /\ UNCHANGED descr
    /\ UNCHANGED <<content, given, lines, codeblock_opened, current_section,
                   split_lines, next_line, code, fnVars>>

\* Lines 93-94.
section(title, body) == <<"*", "*">> \o title \o <<"*", "*", "\n", "\n">> \o body

\* Lines 146-157: the text format_kipoi_dataloader returns.
RenderOut(c) ==
    code[c] \o <<"\n">> \o descr[c].doc \o <<"\n">>
        \o Join(<<"\n">>,
                << section(<<"A", "r", "g", "u", "m", "e", "n", "t", "s">>,
                           descr[c].args) \o <<"\n">>,
                   section(<<"O", "u", "t", "p", "u", "t", " ", "s", "c", "h", "e", "m", "a">>,
                           descr[c].schema) >>)
        \o <<"\n">>

\* Lines 146-157 and the assignment of line 168.
RenderFormat(c) ==
    /\ pc[c] = "format"
    /\ content' = [content EXCEPT ![c] = RenderOut(c)]
    /\ pc' = [pc EXCEPT ![c] = "done"]
    /\ UNCHANGED <<given, lines, codeblock_opened, current_section,
                   split_lines, next_line, code, descr_str, descr, err, fnVars>>

(***************************************************************************)
(* The calls.                                                              *)
(***************************************************************************)

\* The most lines a section's content has.
MaxLines == 4

\* The most lines a section's content has where two calls run interleaved.
MaxConcLines == 2

\* Docstring lines: headers, a fence, a fence that reads as a definition
\* line, a definition line with a reference in it.
HArguments == <<"#", " ", "A", "r", "g", "u", "m", "e", "n", "t", "s">>
HReturns == <<"#", " ", "R", "e", "t", "u", "r", "n", "s">>
HRaises == <<"#", " ", "R", "a", "i", "s", "e", "s">>
HNotes == <<"#", " ", "N", "o", "t", "e", "s">>
LFence == FenceMark
LFenceDef == <<BT, BT, BT, "x", ":", " ", "d">>
LDef == <<"x", ":", " ", "s", "e", "e", " ", "#", "f", ".">>

LineVocab == {HArguments, HReturns, HRaises, HNotes, LFence, LFenceDef, LDef}

\* Lines of a dataloader description: the example's fences and the keys of
\* line 167.
YOpen == <<BT, BT, BT, "p", "y">>
YArgs == <<"a", "r", "g", "s", ":", " ", "d", "o", "c", ":">>
YSchema == <<"o", "u", "t", "p", "u", "t", "_", "s", "c", "h", "e", "m", "a", ":">>

YamlVocab == {YOpen, LFence, YArgs, YSchema}

ConcVocab == {HArguments, LFence, LDef}

\* The texts of at most k lines of vocab.
Texts(vocab, k) ==
    {Join(<<"\n">>, ls) : ls \in UNION {[1..n -> vocab] : n \in 0..k}}

NoDescr == [doc |-> <<>>, args |-> <<>>, schema |-> <<>>]

\* The calls 'ids', each given a Section of its own with one of 'texts', and
\* about to run from 'start'.
InitCalls(ids, texts, start) ==
    /\ content \in [ids -> texts]
    /\ given = content
    /\ pc = [c \in ids |-> start]
    /\ lines = [c \in ids |-> <<>>]
    /\ codeblock_opened = [c \in ids |-> FALSE]
    /\ current_section = [c \in ids |-> None]
    /\ split_lines = [c \in ids |-> <<>>]
    /\ next_line = [c \in ids |-> 1]
    /\ code = [c \in ids |-> <<>>]
    /\ descr_str = [c \in ids |-> <<>>]
    /\ descr = [c \in ids |-> NoDescr]
    /\ err = [c \in ids |-> "none"]
    /\ NoFn

\* One call of DataLoaderYamlPreprocessor.preprocess_section.
Init ==
    InitCalls({1}, Texts(LineVocab, MaxLines) \cup Texts(YamlVocab, MaxLines), "entry")

Next ==
    \/ \E c \in Calls : Dispatch(c)
    \/ \E c \in Calls : Begin(c)
    \/ \E c \in Calls : LoopStep(c)
    \/ \E c \in Calls : Finish(c)
    \/ \E c \in Calls : RenderSplit(c)
    \/ \E c \in Calls : RenderParse(c)
    \/ \E c \in Calls : RenderFormat(c)

Spec == Init /\ [][Next]_vars

\* Two calls of Preprocessor.preprocess_section on two Sections, their steps
\* interleaved in every order.
ConcInit == InitCalls({1, 2}, Texts(ConcVocab, MaxConcLines), "begin")

ConcNext ==
    \/ \E c \in Calls : Begin(c)
    \/ \E c \in Calls : LoopStep(c)
    \/ \E c \in Calls : Finish(c)

SpecConc == ConcInit /\ [][ConcNext]_vars

(***************************************************************************)
(* What the properties speak of, read off the given text rather than off   *)
(* the locals of the loop.                                                 *)
(***************************************************************************)

IsFenceLine(l) == Len(l) >= 3 /\ l[1] = BT /\ l[2] = BT /\ l[3] = BT

IsHeaderLine(l) == Len(l) >= 2 /\ l[1] = "#" /\ l[2] = " "

\* Line i is a fence that opens a block or lies in an open block: the fence
\* lines among the first i lines are odd in number.
InBlock(ls, i) == Cardinality({j \in 1..i : IsFenceLine(ls[j])}) % 2 = 1

\* Line i lies strictly between an opening fence and its closing fence.
StrictlyInside(ls, i) ==
    /\ ~IsFenceLine(ls[i])
    /\ InBlock(ls, i)
    /\ \E j \in (i + 1)..Len(ls) : IsFenceLine(ls[j])

\* The name of the most recent header among the first i lines that is
\* outside every block, trimmed and lower-cased; None when there is none.
HeaderContext(ls, i) ==
    LET hs == {j \in 1..i : IsHeaderLine(ls[j]) /\ ~InBlock(ls, j)}
    IN  IF hs = {} THEN None
        ELSE Lower(Strip(From(ls[CHOOSE j \in hs : \A k \in hs : k <= j], 3)))

HasColon(l) == \E k \in 1..Len(l) : l[k] = ":"

FirstColon(l) == CHOOSE k \in 1..Len(l) : l[k] = ":" /\ \A j \in 1..(k - 1) : l[j] /= ":"

\* An identifier of a definition line: not empty, no whitespace, colon,
\* backslash or parenthesis.
IsCleanIdent(x) ==
    /\ x /= <<>>
    /\ \A j \in 1..Len(x) : ~IsSpace(x[j]) /\ x[j] \notin {":", "\\", "(", ")"}

\* A line 'identifier: description'.
IsPlainDef(l) == HasColon(l) /\ IsCleanIdent(SubSeq(l, 1, FirstColon(l) - 1))

PlainIdent(l) == SubSeq(l, 1, FirstColon(l) - 1)

PlainDoc(l) == From(l, FirstColon(l) + 1)

\* The line the specification gives for a definition line under a section.
ExpectedDef(sec, ident, doc) ==
    IF sec \in {<<"a", "r", "g", "u", "m", "e", "n", "t", "s">>,
                <<"p", "a", "r", "a", "m", "e", "t", "e", "r", "s">>}
    THEN <<"-", " ", "_", "_">> \o ident \o <<"_", "_", ":">> \o doc
    ELSE IF sec \in {<<"a", "t", "t", "r", "i", "b", "u", "t", "e", "s">>,
                     <<"m", "e", "m", "b", "e", "r", "s">>,
                     <<"r", "a", "i", "s", "e", "s">>}
    THEN <<"-", " ", BT>> \o ident \o <<BT, ":">> \o doc
    ELSE IF sec = <<"r", "e", "t", "u", "r", "n", "s">>
    THEN <<BT>> \o ident \o <<BT, ":">> \o doc
    ELSE ident \o <<":">> \o doc

(***************************************************************************)
(* C1.                                                                     *)
(***************************************************************************)

\* A line 'identifier (type info): description': the first ':' follows a ')',
\* the first '(' opens the type info, and the identifier before it is clean
\* and holds no '#'.
IsTypedDef(l) ==
    /\ HasColon(l)
    /\ LET k == FirstColon(l)
           ps == {p \in 1..(k - 1) : l[p] = "("}
       IN  /\ k >= 5 /\ l[k - 1] = ")" /\ ps /= {}
           /\ LET p == CHOOSE q \in ps : \A r \in ps : q <= r
                  head == Strip(SubSeq(l, 1, p - 1))
                  info == SubSeq(l, p + 1, k - 2)
              IN  /\ IsCleanIdent(head)
                  /\ \A j \in 1..Len(head) : head[j] /= "#"
                  /\ StartsWith(l, head)
                  /\ info /= <<>>
                  /\ \A j \in 1..Len(info) : info[j] \notin {"(", ")", "\\"}

TypedIdent(l) ==
    LET p == CHOOSE q \in 1..Len(l) : l[q] = "(" /\ \A r \in 1..(q - 1) : l[r] /= "("
    IN  Strip(SubSeq(l, 1, p - 1))

\* C1: under an active 'arguments' or 'parameters' section, a definition line
\* 'identifier (type info): description' comes out of _preprocess_line as
\* '- __identifier__: description', the type info discarded.
C1_TypeInfoDiscarded ==
    (/\ applied = 1
     /\ arg.current_section \in {ArgumentsName, ParametersName}
     /\ IsTypedDef(arg.line))
        => ret.line = ExpectedDef(arg.current_section, TypedIdent(arg.line),
                                  PlainDoc(arg.line))

(***************************************************************************)
(* C2.                                                                     *)
(***************************************************************************)

\* C2: every line strictly between an opening fence and its closing fence is
\* appended as it is, and the header context is at every point the one set by
\* the headers outside the blocks: a header line inside a block never changes
\* it.
C2_FencedLinesVerbatim ==
    \A c \in Calls :
        LET ls == split_lines[c]
        IN  /\ \A i \in 1..Len(lines[c]) :
                   StrictlyInside(ls, i) => lines[c][i] = ls[i]
            /\ current_section[c] = HeaderContext(ls, Len(lines[c]))

\* A header inside a paired fence, and after the fence a definition line that
\* is left alone because no header is active.
C2_Witness ==
    \E c \in Calls :
        /\ pc[c] = "done"
        /\ split_lines[c] = <<LFence, HArguments, LFence, LDef>>
        /\ lines[c] = <<LFence, HArguments, LFence, LDef>>
        /\ current_section[c] = None

(***************************************************************************)
(* C5.                                                                     *)
(***************************************************************************)

\* C5: a line 'identifier: description' handled outside a block is rewritten
\* in the style of the most recent header outside a block above it, and left
\* as it is when that header is not a recognised one or there is none.
C5_StyleFollowsLastHeader ==
    \A c \in Calls :
        LET ls == split_lines[c]
        IN  \A i \in 1..Len(lines[c]) :
                (~InBlock(ls, i) /\ IsPlainDef(ls[i]))
                    => lines[c][i] = ExpectedDef(HeaderContext(ls, i),
                                                 PlainIdent(ls[i]), PlainDoc(ls[i]))

\* '# Arguments', then '# Returns', then a definition line: the later header
\* decides, and the line has no leading '-'.
C5_Witness ==
    \E c \in Calls :
        /\ pc[c] = "done"
        /\ split_lines[c] = <<HArguments, HReturns, LDef>>
        /\ lines[c][3] = <<BT, "x", BT, ":", " ", "s", "e", "e", " ", "#", "f", ".">>

(***************************************************************************)
(* C6.                                                                     *)
(***************************************************************************)

\* The index of the first split_str of a text that holds one.
FirstMarker(text) ==
    CHOOSE i \in 1..Len(text) :
        /\ OccursAt(text, split_str, i)
        /\ \A j \in 1..(i - 1) : ~OccursAt(text, split_str, j)

\* C6: for a content that holds the marker once or more, the split leaves in
\* 'code' the text up to and including the first marker and in 'descr_str'
\* everything after it.
C6_SplitAtFirstMarker ==
    \A c \in Calls :
        (/\ Sniff(given[c])
         /\ Contains(given[c], split_str)
         /\ pc[c] \notin {"entry", "split"})
            => /\ err[c] /= "ValueError"
               /\ code[c] = SubSeq(given[c], 1, FirstMarker(given[c]) + Len(split_str) - 1)
               /\ pc[c] = "parse"
                      => descr_str[c] = From(given[c], FirstMarker(given[c]) + Len(split_str))

(***************************************************************************)
(* C7.                                                                     *)
(***************************************************************************)

\* C7: on the format_kipoi_dataloader path the content of the section is the
\* given one until the call returns; a call that failed has raised its error
\* to the caller and left the content as given.
C7_NoPartialOutput ==
    \A c \in Calls :
        /\ pc[c] \in {"split", "parse", "format", "raised"} => content[c] = given[c]
        /\ pc[c] = "raised" <=> err[c] /= "none"

\* The description failed to parse after the split had succeeded.
C7_Witness ==
    \E c \in Calls :
        /\ pc[c] = "raised"
        /\ err[c] = "MissingKey"
        /\ code[c] /= <<>>
        /\ content[c] = given[c]

(***************************************************************************)
(* C10.                                                                    *)
(***************************************************************************)

\* The definition-line pattern matches somewhere in the line.
DefPatternMatches(l) == \E k \in 1..Len(l) : DefMatchAt(l, k).found

\* C10: a fence line that opens a block is appended as it is; one that closes
\* a block is appended as _preprocess_line rewrites it under the active header
\* context, which leaves it as it is exactly when no style is active or the
\* definition-line pattern does not match it.
C10_FenceToggledFirst ==
    \A c \in Calls :
        LET ls == split_lines[c]
        IN  \A i \in 1..Len(lines[c]) :
                IsFenceLine(ls[i]) =>
                    IF InBlock(ls, i)
                    THEN lines[c][i] = ls[i]
                    ELSE LET ctx == HeaderContext(ls, i)
                         IN  /\ lines[c][i] = _preprocess_line(ls[i], ctx).line
                             /\ lines[c][i] = ls[i]
                                    <=> (StyleOf(ctx) = NoStyle \/ ~DefPatternMatches(ls[i]))

\* Under '# Arguments' a fence that reads as a definition line opens a block
\* and the same line closes it: the first comes out as it is, the second
\* rewritten.
C10_Witness ==
    \E c \in Calls :
        /\ pc[c] = "done"
        /\ split_lines[c] = <<HArguments, LFenceDef, LFenceDef>>
        /\ lines[c][2] = LFenceDef
        /\ lines[c][3] = <<"-", " ", "_", "_", BT, BT, BT, "x", "_", "_", ":", " ", "d">>

(***************************************************************************)
(* C8.                                                                     *)
(***************************************************************************)

\* The lines preprocess_section appends for the lines ls from index i on, the
\* call running alone.
RECURSIVE PassFrom(_, _, _, _)
PassFrom(ls, i, opened, sec) ==
    IF i > Len(ls) THEN <<>>
    ELSE LET r == LoopBody(ls[i], opened, sec)
         IN  <<r.line>> \o PassFrom(ls, i + 1, r.codeblock_opened, r.current_section)

\* The content preprocess_section leaves for a text, the call running alone.
Alone(text) ==
    _preprocess_refs(Join(<<"\n">>, PassFrom(Split(text, <<"\n">>), 1, FALSE, None)))

\* C8: whatever the interleaving of the calls, each section ends with the
\* content its call alone gives it, and each call enters its loop with the
\* block closed and no header.
C8_CallsIndependent ==
    \A c \in Calls :
        /\ pc[c] = "done" => content[c] = Alone(given[c])
        /\ (pc[c] = "loop" /\ lines[c] = <<>>)
               => (~codeblock_opened[c] /\ current_section[c] = None)

\* Both calls are done, one having handled a definition line inside an open
\* block, the other the same line under '# Arguments'.
C8_Witness ==
    /\ Calls = {1, 2}
    /\ pc[1] = "done" /\ pc[2] = "done"
    /\ given[1] = Join(<<"\n">>, <<LFence, LDef>>)
    /\ given[2] = Join(<<"\n">>, <<HArguments, LDef>>)
    /\ content[1] /= content[2]

(***************************************************************************)
(* C9.                                                                     *)
(***************************************************************************)

\* C9: a line that begins with '# ' comes out as '__<text>__' and a line
\* break, whatever the section before it and the section it names, and sets
\* the section to its trimmed, lower-cased text; any other line leaves the
\* section as it was and, with no style active, comes out as it is.
C9_HeaderLine ==
    applied = 1 =>
        IF IsHeaderLine(arg.line)
        THEN /\ ret.line = <<"_", "_">> \o From(arg.line, 3) \o <<"_", "_", "\n">>
             /\ ret.current_section = Lower(Strip(From(arg.line, 3)))
        ELSE /\ ret.current_section = arg.current_section
             /\ StyleOf(arg.current_section) = NoStyle => ret.line = arg.line

\* A header with a colon in it, met while 'arguments' is the active section.
C9_Witness ==
    /\ applied = 1
    /\ arg.line = <<"#", " ", "x", ":", "x">>
    /\ arg.current_section = ArgumentsName
    /\ ret.line = <<"_", "_", "x", ":", "x", "_", "_", "\n">>

(***************************************************************************)
(* C3.                                                                     *)
(***************************************************************************)

\* Index i of t holds the '#' of a reference: it is at the start of the text
\* or follows a space or a tab, and a character of the identifier follows it.
IsRefHash(t, i) ==
    /\ t[i] = "#"
    /\ i = 1 \/ t[i - 1] \in {" ", "\t"}
    /\ i < Len(t) /\ IsRefChar(t[i + 1])

\* Index i of t is in the identifier of a reference.
InRef(t, i) ==
    /\ IsRefChar(t[i])
    /\ \E h \in 1..(i - 1) :
          IsRefHash(t, h) /\ \A j \in (h + 1)..i : IsRefChar(t[j])

\* Index i holds the last character of the identifier of a reference.
EndsRef(t, i) == InRef(t, i) /\ (i = Len(t) \/ ~IsRefChar(t[i + 1]))

\* What the specification puts in the place of the character at index i.
RefPiece(t, i) ==
    IF IsRefHash(t, i) THEN <<BT>>
    ELSE IF EndsRef(t, i)
         THEN IF i + 2 <= Len(t) /\ t[i + 1] = "(" /\ t[i + 2] = ")" THEN <<t[i]>>
              ELSE IF t[i] = "." THEN <<BT, ".">>
              ELSE <<t[i], BT>>
    ELSE IF i >= 3 /\ t[i] = ")" /\ t[i - 1] = "(" /\ EndsRef(t, i - 2) THEN <<")", BT>>
    ELSE <<t[i]>>

RECURSIVE RefPieces(_, _)
RefPieces(t, i) == IF i > Len(t) THEN <<>> ELSE RefPiece(t, i) \o RefPieces(t, i + 1)

\* C3: every reference, and nothing else, is replaced: its '#' by the opening
\* of a code span that closes after the identifier, after the '()' that
\* follows it, or before the dot that ends it when no '()' follows; the
\* character before the reference is kept.
C3_RefsWrapped == applied = 1 => ret = RefPieces(arg, 1)

\* ' #a.' becomes a code span of 'a' with the dot outside.
C3_Witness ==
    /\ applied = 1
    /\ arg = <<" ", "#", "a", ".">>
    /\ ret = <<" ", BT, "a", BT, ".">>

(***************************************************************************)
(* C4.                                                                     *)
(***************************************************************************)

\* C4: the text after two passes is the text after one.
C4_RefsIdempotent == applied = 2 => ret = _preprocess_refs(arg)

\* Two references, both wrapped by the first pass.
C4_Witness ==
    /\ applied = 2
    /\ arg = <<"#", "a", " ", "#", "a">>
    /\ ret = <<BT, "a", BT, " ", BT, "a", BT>>

====
